---- MODULE Spec2Model ----
(***************************************************************************)
(* Model of the mobile GraphView of skillSeedGraphBased                    *)
(* (src/SkillSeedMobile/components/GraphView.tsx) together with the part   *)
(* of the App component (src/unnamed/part_002) that feeds it its props and *)
(* receives its callbacks.                                                  *)
(*                                                                         *)
(* Coordinates, scales and distances are exact rationals <<n, d>>.          *)
(* Angles are measured in quarter turns, clockwise from 12 o'clock.         *)
(***************************************************************************)
EXTENDS Integers, Sequences, FiniteSets, TLC

NULL == "null"      \* null where a string is expected
None == <<>>        \* null / undefined where a number or an object is expected
NoGen == 0 - 1      \* no generation

----------------------------------------------------------------------------
(* Exact rational arithmetic: a rational is <<n, d>> with d > 0, in lowest *)
(* terms.                                                                  *)

Abs(i) == IF i < 0 THEN -i ELSE i

RECURSIVE Gcd(_, _)
Gcd(a, b) == IF b = 0 THEN a ELSE Gcd(b, a % b)

Norm(n, d) ==
    LET s == IF d < 0 THEN -1 ELSE 1
        g == Gcd(Abs(n), Abs(d))
    IN  IF n = 0 THEN <<0, 1>> ELSE <<(s * n) \div g, (s * d) \div g>>

R(i) == <<i, 1>>
RAdd(a, b) == Norm(a[1] * b[2] + b[1] * a[2], a[2] * b[2])
RSub(a, b) == Norm(a[1] * b[2] - b[1] * a[2], a[2] * b[2])
RMul(a, b) == Norm(a[1] * b[1], a[2] * b[2])
RDiv(a, b) == Norm(a[1] * b[2], a[2] * b[1])
RLt(a, b) == a[1] * b[2] < b[1] * a[2]
RLe(a, b) == a[1] * b[2] <= b[1] * a[2]
RMax(a, b) == IF RLt(a, b) THEN b ELSE a
RMin(a, b) == IF RLt(b, a) THEN b ELSE a
RAbs(a) == <<Abs(a[1]), a[2]>>
RSq(a) == RMul(a, a)

(* Math.sqrt on the squares the model feeds it (perfect squares). *)
RECURSIVE SqrtIn(_, _, _)
SqrtIn(n, lo, hi) ==
    IF lo >= hi THEN lo
    ELSE LET mid == (lo + hi + 1) \div 2
         IN  IF mid * mid <= n THEN SqrtIn(n, mid, hi) ELSE SqrtIn(n, lo, mid - 1)
ISqrt(n) == SqrtIn(n, 0, n)
RSqrt(a) == Norm(ISqrt(a[1]), ISqrt(a[2]))

----------------------------------------------------------------------------
(* The store content handed to the view: three nodes and two tags of the   *)
(* current vault.  Tags are kept sorted by name (updateTags).              *)

StoreTags == <<"A", "B">>
StoreNodes == <<"n1", "n2", "n3">>
NodeTags == [n \in {"n1", "n2", "n3"} |->
               CASE n = "n1" -> <<"A">>
                 [] n = "n2" -> <<"B", "A">>
                 [] n = "n3" -> <<>>]
NodeDifficulty == [n \in {"n1", "n2", "n3"} |->
               CASE n = "n1" -> "Easy"
                 [] n = "n2" -> "Medium"
                 [] n = "n3" -> "Hard"]
(* node.links: n1 links to n2 and to an id no node has. *)
NodeLinks == [n \in {"n1", "n2", "n3"} |->
               CASE n = "n1" -> <<"n2", "n9">>
                 [] n = "n2" -> <<"n1">>
                 [] n = "n3" -> <<"n1">>]
VisibilityKeys == {"A", "B", "UNASSIGNED"}

DIFFICULTY_LEVELS == <<"Easy", "Medium", "Hard">>

Includes(seq, e) == \E i \in 1..Len(seq) : seq[i] = e
IndexOf(seq, e) == CHOOSE i \in 1..Len(seq) : seq[i] = e
MaxI(a, b) == IF a < b THEN b ELSE a
MinI(a, b) == IF a < b THEN a ELSE b

(* utils.isUnassigned: a node without tags. *)
isUnassigned(n) == Len(NodeTags[n]) = 0

----------------------------------------------------------------------------
(* Viewport-derived geometry (GraphView.tsx 142-151 and 156-170).          *)

MobileBreakpoint == 640
isMobile(w) == w < MobileBreakpoint
margin(w) == IF isMobile(w) THEN 25 ELSE 40
radius(w, h) == RSub(Norm(MinI(w, h), 2), R(margin(w)))
unassignedRadius(w, h) == RAdd(radius(w, h), R(IF isMobile(w) THEN 60 ELSE 80))
nodeRadius(w) == IF isMobile(w) THEN 6 ELSE 8
HitRadiusFactor == 3
hitRadius(w) == nodeRadius(w) * HitRadiusFactor
centerX(w) == Norm(w, 2)
centerY(h) == Norm(h, 2)

(* d3.scaleBand over DIFFICULTY_LEVELS with range [0.2 * radius, radius].  *)
radialBandwidth(rad) == RDiv(RSub(rad, RMul(<<1, 5>>, rad)), R(Len(DIFFICULTY_LEVELS)))
radialScale(diff, rad) ==
    RAdd(RMul(<<1, 5>>, rad),
         RMul(R(IndexOf(DIFFICULTY_LEVELS, diff) - 1), radialBandwidth(rad)))

(* d3.scaleBand over the visible tag names with range [0, 2*pi], in        *)
(* quarter turns: band i of n starts at 4*i/n and is 4/max(1,n) wide;      *)
(* a name outside the domain maps to undefined.                            *)
angularBandwidth(dom) == Norm(4, MaxI(1, Len(dom)))
angularScale(t, dom) ==
    IF Includes(dom, t) THEN Norm(4 * (IndexOf(dom, t) - 1), Len(dom)) ELSE None

(* Math.cos / Math.sin of an angle given in whole quarter turns. *)
CosQ(q) == CASE q[2] = 1 /\ q[1] % 4 = 0 -> R(1)
             [] q[2] = 1 /\ q[1] % 4 = 1 -> R(0)
             [] q[2] = 1 /\ q[1] % 4 = 2 -> R(-1)
             [] q[2] = 1 /\ q[1] % 4 = 3 -> R(0)
SinQ(q) == CASE q[2] = 1 /\ q[1] % 4 = 0 -> R(0)
             [] q[2] = 1 /\ q[1] % 4 = 1 -> R(1)
             [] q[2] = 1 /\ q[1] % 4 = 2 -> R(0)
             [] q[2] = 1 /\ q[1] % 4 = 3 -> R(-1)

(* floor of (Math.atan2(gy, gx) + PI/2, normalised into [0, 2*PI)) in      *)
(* quarter turns; band edges of 1, 2 or 4 bands are whole quarter turns,   *)
(* so comparing the floor with an edge decides angle >= edge exactly.      *)
AngleQuarter(gx, gy) ==
    CASE gx[1] = 0 /\ gy[1] = 0 -> 1
      [] gx[1] >= 0 /\ gy[1] < 0 -> 0
      [] gx[1] > 0 /\ gy[1] >= 0 -> 1
      [] gx[1] <= 0 /\ gy[1] > 0 -> 2
      [] gx[1] < 0 /\ gy[1] <= 0 -> 3

(* getDistance(touches), lines 32-37. *)
getDistance(t1, t2) ==
    RSqrt(RAdd(RSq(RSub(t1[1], t2[1])), RSq(RSub(t1[2], t2[2]))))

----------------------------------------------------------------------------
(* Bounds of the model.                                                    *)

MaxGestures == 2        \* pointer-downs in one behaviour

(* Program constants. *)
TapThreshold == 5       \* lines 328 and 344
MinScale == <<1, 2>>    \* line 314
MaxScale == <<3, 1>>    \* line 314
HotAlphaTarget == <<3, 10>>   \* line 260
Viewport == <<400, 800>>   \* the window the app starts in
InitWidth == Viewport[1]
InitHeight == Viewport[2]

(* Inputs: where fingers land apart from the drawn nodes, where a finger   *)
(* can be relative to where it landed, how far apart two fingers are, and  *)
(* the values Math.random() - 0.5 takes when a layout is seeded.           *)
BackgroundPoints == {<<R(300), R(400)>>, <<R(100), R(400)>>, <<R(5), R(5)>>}
Displacements == {<<R(0), R(0)>>, <<R(2), R(0)>>, <<R(50), R(0)>>}
LongDisplacements == {<<R(0), R(0)>>, <<R(50), R(0)>>}
PinchPoints == {<<R(258), R(400)>>}   \* on the background until n1 is shown there
PinchDistances == {0, 10, 20}
RandomDraws == {<<1, 10>>}
Gens == 0..2

VARIABLES
    activeTag,        \* App: null, a tag name or "UNASSIGNED"
    visibleTagsState, \* App: visibility map
    isModalOpen,      \* App: the node modal covers the graph
    width, height,    \* App: useWindowDimensions
    transform,        \* GraphView state {x, y, k}
    lastTransform,    \* ref: transform baseline
    lastDistance,     \* ref: pinch reference distance or null
    draggingNode,     \* ref: null or the node object <<generation, id>>
    heap,             \* the node objects of the live simulations, by generation
    simGen,           \* simulationRef.current: generation of the current simulation
    shownGen,         \* simNodesRef.current / simNodes: generation last ticked, or null
    alphaTarget,      \* the current simulation's alphaTarget
    running,          \* the current simulation's timer is running
    touches,          \* where the active touches are, in landing order
    gestureState,     \* PanResponder's accumulated {dx, dy}
    emitted,          \* callbacks emitted since the last pointer-down
    hist,             \* what the gesture in progress has done so far
    gestures,         \* pointer-downs so far
    isSidebarOpen,    \* App: the sidebar is open
    nodesState,       \* App: the nodes of all vaults (useAsyncStorage 'skillseed-nodes')
    tagsState,        \* App: the tags of all vaults ('skillseed-tags')
    vaults,           \* App: the vault ids ('skillseed-vaults')
    currentVaultId,   \* App: 'skillseed-current-vault'
    nextId,           \* ids simpleUUID has handed out
    backResult,       \* what the last hardwareBackPress listener call returned
    hook              \* one instance of the storage hook (useAsyncStorage)

storeVars == <<isSidebarOpen, nodesState, tagsState, vaults, currentVaultId,
               nextId, backResult>>

vars == <<activeTag, visibleTagsState, isModalOpen, width, height, transform,
          lastTransform, lastDistance, draggingNode, heap, simGen, shownGen,
          alphaTarget, running, touches, gestureState, emitted, hist,
          gestures, storeVars, hook>>

(* The state of the graph view and of its gestures. *)
graphVars == <<visibleTagsState, width, height, transform, lastTransform,
               lastDistance, draggingNode, heap, simGen, shownGen, alphaTarget,
               running, touches, gestureState, emitted, hist, gestures>>

appVars == <<activeTag, visibleTagsState, isModalOpen, width, height>>
simVars == <<heap, simGen, shownGen, alphaTarget, running>>

(* transformRef, activeTagRef and dimensionsRef are written by the effect  *)
(* of lines 130-137, which runs in the commit of the render that follows   *)
(* each state change: they are read here as the committed values.          *)
transformRef == transform

----------------------------------------------------------------------------
(* App: the props it derives for the view (part_002 lines 367-390).        *)

isZoomed(at) == at # NULL /\ at # "UNASSIGNED"

visibleTags(at) ==
    IF isZoomed(at) THEN SelectSeq(StoreTags, LAMBDA t : t = at) ELSE StoreTags

visibleNodes(at, vts) ==
    SelectSeq(StoreNodes, LAMBDA n :
        /\ IF at = "UNASSIGNED" THEN isUnassigned(n)
           ELSE IF at # NULL THEN Includes(NodeTags[n], at) ELSE TRUE
        /\ IF isUnassigned(n) THEN vts["UNASSIGNED"] # FALSE
           ELSE vts[NodeTags[n][1]] # FALSE)

(* GraphView lines 369-375. *)
visibleTagsList(tags, vts) == SelectSeq(tags, LAMBDA t : vts[t] # FALSE)
angularDomain(at, vts) == visibleTagsList(visibleTags(at), vts)

----------------------------------------------------------------------------
(* The simulation effect, lines 407-495: the node objects of a new         *)
(* simulation.  u is the value of Math.random() - 0.5; the node at an even *)
(* index draws -u.                                                         *)

activeNodes(nodes, vts) ==
    SelectSeq(nodes, isUnassigned)
      \o SelectSeq(nodes, LAMBDA n : ~isUnassigned(n) /\ vts[NodeTags[n][1]] # FALSE)

Draw(u, i) == IF i % 2 = 1 THEN u ELSE RSub(R(0), u)

SeedNode(n, i, nodes, dom, at, w, h, showDiff, u) ==
    IF isUnassigned(n)
    THEN LET un == SelectSeq(nodes, isUnassigned)
             \* baseAngle = 2*PI*index/max(length, 1), in quarter turns
             baseAngle == Norm(4 * (IndexOf(un, n) - 1), MaxI(Len(un), 1))
             ur == unassignedRadius(w, h)
         IN  [id |-> n,
              x |-> RAdd(RMul(ur, CosQ(RSub(baseAngle, R(1)))), RMul(Draw(u, i), R(20))),
              y |-> RAdd(RMul(ur, SinQ(RSub(baseAngle, R(1)))), RMul(Draw(u, i), R(20))),
              fx |-> None, fy |-> None, targetX |-> None, targetY |-> None]
    ELSE LET start == angularScale(NodeTags[n][1], dom)
             angle == RAdd(IF start = None THEN R(0) ELSE start,
                           RDiv(angularBandwidth(dom), R(2)))
             rad == radius(w, h)
             r == IF showDiff
                  THEN RAdd(radialScale(NodeDifficulty[n], rad),
                            RDiv(radialBandwidth(rad), R(2)))
                  ELSE RMul(rad, <<3, 5>>)
             tx == RMul(r, CosQ(RSub(angle, R(1))))
             ty == RMul(r, SinQ(RSub(angle, R(1))))
         IN  [id |-> n,
              x |-> IF isZoomed(at) THEN RMul(Draw(u, i), R(50))
                    ELSE RAdd(tx, RMul(Draw(u, i), R(10))),
              y |-> IF isZoomed(at) THEN RMul(Draw(u, i), R(50))
                    ELSE RAdd(ty, RMul(Draw(u, i), R(10))),
              fx |-> None, fy |-> None, targetX |-> tx, targetY |-> ty]

initialNodes(at, vts, w, h, showDiff, u) ==
    LET nodes == visibleNodes(at, vts)
        act == activeNodes(nodes, vts)
        dom == angularDomain(at, vts)
    IN  [i \in 1..Len(act) |-> SeedNode(act[i], i, nodes, dom, at, w, h, showDiff, u)]

showDifficulty == TRUE     \* App state, part_002 line 41

----------------------------------------------------------------------------
(* Node objects are shared by reference between the simulation, the        *)
(* snapshot array and the drag ref.  heap[g] holds the objects of          *)
(* generation g; generations are renumbered by age so that only the live   *)
(* ones (current simulation, snapshot, dragged object) are kept.           *)

LiveGens(sg, shg, dn) ==
    {sg} \cup (IF shg = NoGen THEN {} ELSE {shg})
         \cup (IF dn = None THEN {} ELSE {dn[1]})

Rank(g, live) == Cardinality({l \in live : l < g})

Canon(h, sg, shg, dn) ==
    LET live == LiveGens(sg, shg, dn)
    IN  [heap |-> [r \in Gens |->
                     IF \E g \in live : Rank(g, live) = r
                     THEN h[CHOOSE g \in live : Rank(g, live) = r]
                     ELSE <<>>],
         simGen |-> Rank(sg, live),
         shownGen |-> IF shg = NoGen THEN NoGen ELSE Rank(shg, live),
         draggingNode |-> IF dn = None THEN None
                          ELSE <<Rank(dn[1], live), dn[2]>>]

ObjIndex(tbl, id) == CHOOSE i \in 1..Len(tbl) : tbl[i].id = id
HasObj(tbl, id) == \E i \in 1..Len(tbl) : tbl[i].id = id
Deref(h, dn) == h[dn[1]][ObjIndex(h[dn[1]], dn[2])]

(* simNodesRef.current: the array the last tick published ([] before). *)
simNodesRef == IF shownGen = NoGen THEN <<>> ELSE heap[shownGen]

----------------------------------------------------------------------------
(* Hit-testing, lines 154-238.                                             *)

graphCoord(v, c, t, k) == RDiv(RSub(RSub(v, c), t), k)

(* The node filter of findNodeAt, line 179. *)
SkippedByFocus(n, at) == at # NULL /\ ~Includes(NodeTags[n], at)

findNodeAt(x, y) ==
    LET graphX == graphCoord(x, centerX(width), transformRef.x, transformRef.k)
        graphY == graphCoord(y, centerY(height), transformRef.y, transformRef.k)
        hr == hitRadius(width)
        tbl == simNodesRef
        hits == {i \in 1..Len(tbl) :
                   /\ ~SkippedByFocus(tbl[i].id, activeTag)
                   /\ RLt(RAdd(RSq(RSub(graphX, tbl[i].x)), RSq(RSub(graphY, tbl[i].y))),
                          R(hr * hr))}
    IN  IF hits = {} THEN None
        ELSE <<shownGen, tbl[CHOOSE i \in hits : \A j \in hits : j <= i].id>>

(* The radius findTagAt reads is the one of the render that created the    *)
(* PanResponder (useRef keeps the first instance, line 240).               *)
closureRadius == radius(InitWidth, InitHeight)

(* angle >= edge and angle < edge for an edge at a whole quarter turn. *)
AngleGE(gx, gy, edge) == CASE edge[2] = 1 -> AngleQuarter(gx, gy) >= edge[1]
AngleLT(gx, gy, edge) == CASE edge[2] = 1 -> AngleQuarter(gx, gy) < edge[1]

findTagAt(x, y) ==
    LET graphX == graphCoord(x, centerX(width), transformRef.x, transformRef.k)
        graphY == graphCoord(y, centerY(height), transformRef.y, transformRef.k)
        dom == angularDomain(activeTag, visibleTagsState)
        inBand == {i \in 1..Len(dom) :
                     /\ AngleGE(graphX, graphY, angularScale(dom[i], dom))
                     /\ AngleLT(graphX, graphY,
                                RAdd(angularScale(dom[i], dom), angularBandwidth(dom)))}
    IN  IF RLt(RSq(closureRadius), RAdd(RSq(graphX), RSq(graphY))) THEN NULL
        ELSE IF inBand = {} THEN NULL
        ELSE dom[CHOOSE i \in inBand : \A j \in inBand : i <= j]

(* The node filter of the renderer, lines 601-607, and where it draws. *)
IsDrawn(n, at) ==
    IF at = "UNASSIGNED" THEN isUnassigned(n)
    ELSE IF at # NULL THEN Includes(NodeTags[n], at) ELSE TRUE

ScreenPoint(o) ==
    <<RAdd(RAdd(centerX(width), transform.x), RMul(transform.k, o.x)),
      RAdd(RAdd(centerY(height), transform.y), RMul(transform.k, o.y))>>

DrawnPoints ==
    {ScreenPoint(simNodesRef[i]) :
        i \in {j \in 1..Len(simNodesRef) : IsDrawn(simNodesRef[j].id, activeTag)}}

(* Edges, as the set of <<source id, target id>> pairs.  links is what the *)
(* simulation effect hands to forceLink (lines 453-458) for the active     *)
(* nodes act; renderedLinks is what the renderer draws (lines 498-531)     *)
(* from the nodes prop, the published snapshot simNodes and activeTag.     *)
Ids(tbl) == {tbl[i].id : i \in 1..Len(tbl)}
Elems(seq) == {seq[i] : i \in 1..Len(seq)}

links(act) ==
    UNION {{<<s, t>> : t \in {q \in Elems(NodeLinks[s]) : Includes(act, q)}}
           : s \in Elems(act)}

renderedLinks(nodes, simN, at) ==
    {e \in Elems(nodes) \X Ids(simN) :
        /\ IsDrawn(e[1], at)
        /\ Includes(NodeLinks[e[1]], e[2])
        /\ Includes(nodes, e[2]) => IsDrawn(e[2], at)}

InViewport(p) ==
    /\ RLe(R(0), p[1]) /\ RLe(p[1], R(width))
    /\ RLe(R(0), p[2]) /\ RLe(p[2], R(height))

----------------------------------------------------------------------------
(* The App's store (part_002): nodes, tags and vaults kept by the storage  *)
(* hook.  A node is [id, vaultId, title, tags, links], a tag is            *)
(* [name, vaultId]; colours, XP and dates are left out.  The graph view    *)
(* above is modelled for one fixed vault content; the store is modelled    *)
(* from the first start of the app, when the default vault has been made.  *)

MaxUuids == 3           \* ids simpleUUID hands out after the default vault's
MaxNodes == 2           \* nodes in the store
MaxVaults == 2          \* vaults at a time

Uuids == <<"u1", "u2", "u3", "u4">>   \* the values of simpleUUID, in order
TagOrder == <<"A", "B">>              \* tag names in localeCompare order
TagNames == {"A", "B"}

(* What the node form can hold: a title, tags (at least one, NodeModal     *)
(* lines 142-150), and the titles the description mentions as [[title]].   *)
NodeForms ==
    {[title |-> "t1", tags |-> <<"A">>, refs |-> {}],
     [title |-> "t2", tags |-> <<"A">>, refs |-> {"t1"}]}

SeqMap(seq, F(_)) == [i \in 1..Len(seq) |-> F(seq[i])]

currentVaultNodes == SelectSeq(nodesState, LAMBDA n : n.vaultId = currentVaultId)
currentVaultTags == SelectSeq(tagsState, LAMBDA t : t.vaultId = currentVaultId)
TagNamesOf(tl) == {tl[i].name : i \in 1..Len(tl)}

(* updateTags(newNodes, currentTags), part_002 lines 139-171: the tags of  *)
(* the current vault are its old tags and the tags its nodes carry, sorted *)
(* by name and put after the tags of the other vaults.                     *)
updateTags(newNodes, currentTags) ==
    IF currentVaultId = NULL THEN currentTags
    ELSE LET old == TagNamesOf(SelectSeq(currentTags,
                                         LAMBDA t : t.vaultId = currentVaultId))
             mine == SelectSeq(newNodes, LAMBDA n : n.vaultId = currentVaultId)
             used == UNION {{mine[i].tags[j] : j \in 1..Len(mine[i].tags)}
                            : i \in 1..Len(mine)}
             sortedTags == SeqMap(SelectSeq(TagOrder, LAMBDA t : t \in old \cup used),
                                  LAMBDA t : [name |-> t, vaultId |-> currentVaultId])
         IN  SelectSeq(currentTags, LAMBDA t : t.vaultId # currentVaultId)
               \o sortedTags

(* The first node with the title, lines 183-186 (titles are compared       *)
(* without case; the model's titles are lower case).                       *)
LinkTargets(prevNodes, refs, id) ==
    {prevNodes[i].id : i \in {j \in 1..Len(prevNodes) :
        /\ prevNodes[j].title \in refs
        /\ \A k \in 1..(j - 1) : prevNodes[k].title # prevNodes[j].title
        /\ prevNodes[j].id # id}}

InitStore ==
    /\ isSidebarOpen = FALSE
    /\ nodesState = <<>>
    /\ tagsState = <<>>
    /\ vaults = <<Uuids[1]>>
    /\ currentVaultId = Uuids[1]
    /\ nextId = 1
    /\ backResult = NULL

----------------------------------------------------------------------------
(* The storage hook: useAsyncStorage (part_005 and part_000) and           *)
(* useLocalStorage (src/hooks/useLocalStorage.ts).  The stored value is a  *)
(* set of items; an updater function adds or removes one item.  React      *)
(* queues what setStoredValue is given and applies the queue, in order,    *)
(* when the component renders again; the setValue in use until then is the *)
(* one of the last render, whose storedValue is the committed one.         *)

MaxPending == 3         \* setValue calls between two renders
Items == {1, 2}
HookImpls == {"part_005", "part_000", "useLocalStorage"}
Updaters == {[op |-> o, arg |-> a] : o \in {"add", "del"}, a \in Items}

Apply(f, v) == IF f.op = "add" THEN v \cup {f.arg} ELSE v \ {f.arg}

(* What setValue hands to setStoredValue for the updater f. *)
Queued(impl, f, storedValue) ==
    IF impl = "part_005"
    THEN [kind |-> "value", value |-> Apply(f, storedValue), fn |-> f]   \* line 27-28
    ELSE [kind |-> "fn", value |-> {}, fn |-> f]       \* setStoredValue(prev => ...)

(* React applies a queued update to the state. *)
Reduce(q, v) == IF q.kind = "value" THEN q.value ELSE Apply(q.fn, v)

RECURSIVE ReduceAll(_, _)
ReduceAll(queue, v) ==
    IF queue = <<>> THEN v ELSE ReduceAll(Tail(queue), Reduce(Head(queue), v))

InitHook(impl) == [impl |-> impl, storedValue |-> {}, pending |-> <<>>]

(* setValue(f) with an updater function f. *)
SetValue(f) ==
    /\ Len(hook.pending) < MaxPending
    /\ hook' = [hook EXCEPT !.pending = Append(@, Queued(hook.impl, f, hook.storedValue))]
    /\ UNCHANGED <<activeTag, isModalOpen, graphVars, storeVars>>

(* The component renders again: the queued updates become the state. *)
Render ==
    /\ hook.pending # <<>>
    /\ hook' = [hook EXCEPT !.storedValue = ReduceAll(hook.pending, @),
                            !.pending = <<>>]
    /\ UNCHANGED <<activeTag, isModalOpen, graphVars, storeVars>>

----------------------------------------------------------------------------
Origin == [x |-> R(0), y |-> R(0), k |-> R(1)]
NoHist == [down |-> <<R(0), R(0)>>, grabbed |-> FALSE, path |-> R(0),
           second |-> FALSE, panned |-> FALSE, fixed |-> FALSE, ended |-> ""]

(* A re-render of App hands the view a new nodes array, so the simulation  *)
(* effect runs again: the old simulation is stopped and a new one built.   *)
Rebuild(h, dn, at, vts, w, hh, u) ==
    LET c == Canon([g \in 0..3 |->
                      IF g = 3 THEN initialNodes(at, vts, w, hh, showDifficulty, u)
                      ELSE h[g]],
                   3, shownGen, dn)
    IN  /\ heap' = c.heap
        /\ simGen' = c.simGen
        /\ shownGen' = c.shownGen
        /\ draggingNode' = c.draggingNode
        /\ alphaTarget' = R(0)
        /\ running' = TRUE

InitGraph ==
    /\ activeTag = NULL
    /\ visibleTagsState = [t \in VisibilityKeys |-> TRUE]
    /\ isModalOpen = FALSE
    /\ width = InitWidth /\ height = InitHeight
    /\ transform = Origin
    /\ lastTransform = Origin
    /\ lastDistance = None
    /\ draggingNode = None
    /\ \E u \in RandomDraws :
         heap = [g \in Gens |->
                   IF g = 0
                   THEN initialNodes(NULL, [t \in VisibilityKeys |-> TRUE],
                                     InitWidth, InitHeight, showDifficulty, u)
                   ELSE <<>>]
    /\ simGen = 0
    /\ shownGen = NoGen
    /\ alphaTarget = R(0) /\ running = TRUE
    /\ touches = <<>>
    /\ gestureState = [dx |-> R(0), dy |-> R(0)]
    /\ emitted = <<>>
    /\ hist = NoHist
    /\ gestures = 0
    /\ InitStore

Init == InitGraph /\ hook = InitHook("part_000")

(* The same with any of the three implementations of the hook. *)
InitHooks == InitGraph /\ \E impl \in HookImpls : hook = InitHook(impl)

----------------------------------------------------------------------------
(* The record of the last gesture is kept until the first step that        *)
(* follows its end; PanResponder re-initialises gestureState at the next   *)
(* grant, so its value between gestures is never read.                     *)
Forget ==
    /\ emitted' = <<>>
    /\ hist' = IF touches = <<>> THEN NoHist ELSE hist
    /\ gestureState' = IF touches = <<>> THEN [dx |-> R(0), dy |-> R(0)]
                       ELSE gestureState

----------------------------------------------------------------------------
(* Writes through a node reference. *)
WriteFixed(h, dn, fx, fy) ==
    [h EXCEPT ![dn[1]] =
        [i \in 1..Len(h[dn[1]]) |->
            IF h[dn[1]][i].id = dn[2]
            THEN [h[dn[1]][i] EXCEPT !.fx = fx, !.fy = fy]
            ELSE h[dn[1]][i]]]

(* Lines 255-257: fix the grabbed node where it is. *)
FixNode(h, dn) == WriteFixed(h, dn, Deref(h, dn).x, Deref(h, dn).y)

(* Lines 286-287: the dragged node follows the touch point. *)
DragNode(h, dn, loc) ==
    WriteFixed(h, dn,
               graphCoord(loc[1], centerX(width), transformRef.x, transformRef.k),
               graphCoord(loc[2], centerY(height), transformRef.y, transformRef.k))

(* Mutation of ReleaseNode: the release leaves fx / fy as they are. *)
ReleaseNodeKeepsPin(h, dn) == h

(* Lines 333-334: release the node. *)
ReleaseNode(h, dn) == WriteFixed(h, dn, None, None)

(* Mutation of NewScale: no clamping. *)
NewScaleUnclamped(baseK, dist, lastDist) == RMul(baseK, RDiv(dist, lastDist))

(* Line 314. *)
NewScale(baseK, dist, lastDist) ==
    RMax(MinScale, RMin(MaxScale, RMul(baseK, RDiv(dist, lastDist))))

(* Mutation of PanTransform: the pan is divided by the zoom. *)
PanTransformScaled(base, gs) ==
    [x |-> RAdd(base.x, RDiv(gs.dx, base.k)), y |-> RAdd(base.y, RDiv(gs.dy, base.k)),
     k |-> base.k]

(* Lines 304-308. *)
PanTransform(base, gs) ==
    [x |-> RAdd(base.x, gs.dx), y |-> RAdd(base.y, gs.dy), k |-> base.k]

(* Line 327-328 and line 344: the two tap tests. *)
IsDragClick(gs) == RLt(RAdd(RSq(gs.dx), RSq(gs.dy)), R(TapThreshold * TapThreshold))
IsTap(gs, ld) ==
    /\ RLt(RAbs(gs.dx), R(TapThreshold))
    /\ RLt(RAbs(gs.dy), R(TapThreshold))
    /\ (ld = None \/ ld = R(0))

----------------------------------------------------------------------------
(* The simulation timer: one tick of the current simulation (d3), then     *)
(* the tick handler of lines 483-488.  A fixed node is put at (fx, fy); a  *)
(* free node either stays or is carried to its rest position by the        *)
(* forces (settle).                                                        *)

RestPos(o, tbl) ==
    IF o.targetX # None THEN <<o.targetX, o.targetY>>
    ELSE LET un == SelectSeq(tbl, LAMBDA q : q.targetX = None)
             k == CHOOSE i \in 1..Len(un) : un[i].id = o.id
             baseAngle == Norm(4 * (k - 1), MaxI(Len(un), 1))
             ur == unassignedRadius(width, height)
         IN  <<RMul(ur, CosQ(RSub(baseAngle, R(1)))),
               RMul(ur, SinQ(RSub(baseAngle, R(1))))>>

TickNode(o, tbl, settle) ==
    IF o.fx # None THEN [o EXCEPT !.x = o.fx, !.y = o.fy]
    ELSE IF settle THEN [o EXCEPT !.x = RestPos(o, tbl)[1], !.y = RestPos(o, tbl)[2]]
    ELSE o

(* alpha decays towards alphaTarget; with alphaTarget = 0 it falls below   *)
(* alphaMin after some ticks and the timer stops after that tick (stop);   *)
(* with alphaTarget = 0.3 it never does.                                   *)
CanStop(target) == target = R(0)

Tick(settle, stop) ==
    /\ running
    /\ stop => CanStop(alphaTarget)
    /\ LET tbl == heap[simGen]
           h2 == [heap EXCEPT ![simGen] =
                     [i \in 1..Len(tbl) |-> TickNode(tbl[i], tbl, settle)]]
           c == Canon(h2, simGen, simGen, draggingNode)
       IN  /\ heap' = c.heap
           /\ simGen' = c.simGen
           /\ shownGen' = c.shownGen
           /\ draggingNode' = c.draggingNode
    /\ running' = ~stop
    /\ Forget
    /\ UNCHANGED <<appVars, transform, lastTransform, lastDistance, alphaTarget,
                   touches, gestures>>
    /\ UNCHANGED <<storeVars, hook>>

----------------------------------------------------------------------------
(* onPanResponderGrant, lines 244-272: n fingers land, the first at p and  *)
(* a second one d to its right.                                            *)

SecondTouch(p, d) == <<RAdd(p[1], R(d)), p[2]>>
Shift(p, e) == <<RAdd(p[1], e[1]), RAdd(p[2], e[2])>>
Capped(len) == RMin(len, R(TapThreshold))

Grant(p, n, d) ==
    /\ touches = <<>>
    /\ ~isModalOpen
    /\ gestures < MaxGestures
    /\ InViewport(p)
    /\ n = 2 => InViewport(SecondTouch(p, d))
    /\ LET node == IF n = 1 THEN findNodeAt(p[1], p[2]) ELSE None
       IN  /\ IF node # None
              THEN /\ draggingNode' = node
                   /\ heap' = FixNode(heap, node)
                   /\ alphaTarget' = HotAlphaTarget
                   /\ running' = TRUE
                   /\ UNCHANGED <<lastTransform, lastDistance>>
              ELSE /\ lastTransform' = transformRef
                   /\ lastDistance' = IF n = 2 THEN getDistance(p, SecondTouch(p, d))
                                      ELSE None
                   /\ UNCHANGED <<draggingNode, heap, alphaTarget, running>>
           /\ hist' = [NoHist EXCEPT !.down = p, !.grabbed = (node # None),
                                     !.second = (n = 2), !.fixed = (node # None)]
    /\ touches' = IF n = 1 THEN <<p>> ELSE <<p, SecondTouch(p, d)>>
    /\ gestureState' = [dx |-> R(0), dy |-> R(0)]
    /\ emitted' = <<>>
    /\ gestures' = gestures + 1
    /\ UNCHANGED <<appVars, transform, simGen, shownGen>>
    /\ UNCHANGED <<storeVars, hook>>

(* A second finger lands (once in a gesture) or one of two fingers lifts:  *)
(* the view defines no onPanResponderStart / onPanResponderEnd, so only    *)
(* the touch list changes.                                                 *)
TouchStart(d) ==
    /\ Len(touches) = 1
    /\ ~hist.second
    /\ InViewport(SecondTouch(touches[1], d))
    /\ touches' = <<touches[1], SecondTouch(touches[1], d)>>
    /\ hist' = [hist EXCEPT !.second = TRUE]
    /\ UNCHANGED <<appVars, simVars, transform, lastTransform, lastDistance,
                   draggingNode, gestureState, emitted, gestures>>
    /\ UNCHANGED <<storeVars, hook>>

TouchEnd(i) ==
    /\ Len(touches) = 2
    /\ touches' = <<touches[3 - i]>>
    /\ UNCHANGED <<appVars, simVars, transform, lastTransform, lastDistance,
                   draggingNode, gestureState, emitted, hist, gestures>>
    /\ UNCHANGED <<storeVars, hook>>

(* Mutation of onPanResponderMove: no branch for the arrival of a second   *)
(* finger.                                                                 *)
onPanResponderMoveNoTransition(tl, loc, gs) ==
    IF draggingNode # None
    THEN /\ heap' = DragNode(heap, draggingNode, loc)
         /\ running' = TRUE
         /\ UNCHANGED <<transform, lastTransform, lastDistance>>
    ELSE IF Len(tl) = 1 /\ lastDistance = None
    THEN /\ transform' = PanTransform(lastTransform, gs)
         /\ UNCHANGED <<lastTransform, lastDistance, heap, running>>
    ELSE IF Len(tl) = 2 /\ lastDistance # R(0) /\ lastDistance # None
    THEN /\ transform' = [transform EXCEPT
                            !.k = NewScale(lastTransform.k,
                                           getDistance(tl[1], tl[2]),
                                           lastDistance)]
         /\ UNCHANGED <<lastTransform, lastDistance, heap, running>>
    ELSE UNCHANGED <<transform, lastTransform, lastDistance, heap, running>>

(* Mutation of onPanResponderMove: dragging a node also pans the view. *)
onPanResponderMoveDragPans(tl, loc, gs) ==
    IF draggingNode # None
    THEN /\ heap' = DragNode(heap, draggingNode, loc)
         /\ running' = TRUE
         /\ transform' = PanTransform(lastTransform, gs)
         /\ UNCHANGED <<lastTransform, lastDistance>>
    ELSE IF Len(tl) = 2 /\ lastDistance = None
    THEN /\ lastDistance' = getDistance(tl[1], tl[2])
         /\ lastTransform' = transformRef
         /\ UNCHANGED <<transform, heap, running>>
    ELSE IF Len(tl) = 1 /\ lastDistance = None
    THEN /\ transform' = PanTransform(lastTransform, gs)
         /\ UNCHANGED <<lastTransform, lastDistance, heap, running>>
    ELSE IF Len(tl) = 2 /\ lastDistance # R(0)
    THEN /\ transform' = [transform EXCEPT
                            !.k = NewScale(lastTransform.k,
                                           getDistance(tl[1], tl[2]),
                                           lastDistance)]
         /\ UNCHANGED <<lastTransform, lastDistance, heap, running>>
    ELSE UNCHANGED <<transform, lastTransform, lastDistance, heap, running>>

(* onPanResponderMove, lines 273-321, for the touch list tl after the      *)
(* move, the moved touch at loc and the accumulated gesture state gs.      *)
onPanResponderMove(tl, loc, gs) ==
    IF draggingNode # None
    THEN /\ heap' = DragNode(heap, draggingNode, loc)
         /\ running' = TRUE
         /\ UNCHANGED <<transform, lastTransform, lastDistance>>
    ELSE IF Len(tl) = 2 /\ lastDistance = None
    THEN /\ lastDistance' = getDistance(tl[1], tl[2])
         /\ lastTransform' = transformRef
         /\ UNCHANGED <<transform, heap, running>>
    ELSE IF Len(tl) = 1 /\ lastDistance = None
    THEN /\ transform' = PanTransform(lastTransform, gs)
         /\ UNCHANGED <<lastTransform, lastDistance, heap, running>>
    ELSE IF Len(tl) = 2 /\ lastDistance # R(0)
    THEN /\ transform' = [transform EXCEPT
                            !.k = NewScale(lastTransform.k,
                                           getDistance(tl[1], tl[2]),
                                           lastDistance)]
         /\ UNCHANGED <<lastTransform, lastDistance, heap, running>>
    ELSE UNCHANGED <<transform, lastTransform, lastDistance, heap, running>>

(* PanResponder adds the movement of the moved touch to gestureState. *)
MoveEvent(tl, loc, old) ==
    LET gs == [dx |-> RAdd(gestureState.dx, RSub(loc[1], old[1])),
               dy |-> RAdd(gestureState.dy, RSub(loc[2], old[2]))]
    IN  /\ InViewport(loc)
        /\ loc # old
        /\ touches' = tl
        /\ gestureState' = gs
        /\ onPanResponderMove(tl, loc, gs)
        /\ hist' = [hist EXCEPT !.path = Capped(RAdd(@, getDistance(loc, old))),
                                !.panned = @ \/ transform' # transform,
                                !.fixed = @ \/ draggingNode # None]
        /\ UNCHANGED <<appVars, draggingNode, simGen, shownGen, alphaTarget,
                       emitted, gestures>>
        /\ UNCHANGED <<storeVars, hook>>

(* The only finger moves to e away from where the gesture began. *)
Move(e) ==
    /\ Len(touches) = 1
    /\ MoveEvent(<<Shift(hist.down, e)>>, Shift(hist.down, e), touches[1])

(* The second of two fingers moves to distance d from the first. *)
Pinch(d) ==
    /\ Len(touches) = 2
    /\ MoveEvent(<<touches[1], SecondTouch(touches[1], d)>>,
                 SecondTouch(touches[1], d), touches[2])

----------------------------------------------------------------------------
(* onPanResponderRelease, lines 322-359: the last finger lifts.  The App   *)
(* callbacks (part_002 lines 113-127) set App state; when they change it,  *)
(* App renders again and the simulation is rebuilt (u seeds it).           *)

Release(u) ==
    /\ Len(touches) = 1
    /\ touches' = <<>>
    /\ LET loc == touches[1] IN
       IF draggingNode # None
       THEN \* drag branch, lines 325-341
            LET h2 == ReleaseNode(heap, draggingNode) IN
            /\ UNCHANGED <<lastTransform, lastDistance, activeTag>>
            /\ IF IsDragClick(gestureState)
               THEN /\ emitted' = Append(emitted, <<"onNodeClick", draggingNode[2]>>)
                    /\ isModalOpen' = TRUE
                    /\ Rebuild(h2, None, activeTag, visibleTagsState, width, height, u)
               ELSE /\ emitted' = emitted
                    /\ isModalOpen' = isModalOpen
                    /\ LET c == Canon(h2, simGen, shownGen, None)
                       IN  /\ heap' = c.heap
                           /\ simGen' = c.simGen
                           /\ shownGen' = c.shownGen
                           /\ draggingNode' = c.draggingNode
                    /\ alphaTarget' = R(0)
                    /\ UNCHANGED running
       ELSE IF IsTap(gestureState, lastDistance)
       THEN LET clickedTag == IF activeTag = NULL \/ activeTag = "UNASSIGNED"
                              THEN findTagAt(loc[1], loc[2]) ELSE NULL
            IN  IF clickedTag # NULL
                THEN \* handleTagClick; the handler returns at line 351
                     /\ emitted' = Append(emitted, <<"onTagClick", clickedTag>>)
                     /\ activeTag' = clickedTag
                     /\ isModalOpen' = FALSE
                     /\ Rebuild(heap, draggingNode, clickedTag, visibleTagsState,
                                width, height, u)
                     /\ UNCHANGED <<lastTransform, lastDistance>>
                ELSE \* handleBackgroundClick
                     /\ emitted' = Append(emitted, <<"onBackgroundClick">>)
                     /\ activeTag' = NULL
                     /\ IF activeTag # NULL
                        THEN Rebuild(heap, draggingNode, NULL, visibleTagsState,
                                     width, height, u)
                        ELSE UNCHANGED <<simVars, draggingNode>>
                     /\ lastDistance' = None
                     /\ lastTransform' = transformRef
                     /\ UNCHANGED isModalOpen
       ELSE /\ lastDistance' = None
            /\ lastTransform' = transformRef
            /\ UNCHANGED <<simVars, draggingNode, emitted, activeTag, isModalOpen>>
    /\ hist' = [hist EXCEPT !.ended = "release"]
    /\ UNCHANGED <<visibleTagsState, width, height, transform, gestureState,
                   gestures>>
    /\ UNCHANGED <<storeVars, hook>>

(* The platform takes the responder away mid-gesture (a system alert,      *)
(* another view claiming the touch): the view defines no                   *)
(* onPanResponderTerminate, so no handler runs.                            *)
Terminate ==
    /\ Len(touches) > 0
    /\ touches' = <<>>
    /\ hist' = [hist EXCEPT !.ended = "cancel"]
    /\ UNCHANGED <<appVars, simVars, transform, lastTransform, lastDistance,
                   draggingNode, gestureState, emitted, gestures>>
    /\ UNCHANGED <<storeVars, hook>>

----------------------------------------------------------------------------
(* App-level events; each changes App state, so App renders again and the  *)
(* simulation effect rebuilds the simulation.                              *)

(* Legend row or sector label pressed: handleTagClick, part_002 118-121. *)
TagClick(t, u) ==
    /\ touches = <<>>
    /\ ~isModalOpen
    /\ activeTag # t
    /\ activeTag' = t
    /\ Rebuild(heap, draggingNode, t, visibleTagsState, width, height, u)
    /\ Forget
    /\ UNCHANGED <<visibleTagsState, isModalOpen, width, height, transform,
                   lastTransform, lastDistance, touches, gestures>>
    /\ UNCHANGED <<storeVars, hook>>

(* An eye of the legend pressed (GraphView lines 637-677: one row per tag  *)
(* of the tags prop and one for the unassigned nodes):                     *)
(* handleToggleTagVisibility, part_002 360-365.                            *)
ToggleTagVisibility(t, u) ==
    /\ touches = <<>>
    /\ ~isModalOpen
    /\ t = "UNASSIGNED" \/ Includes(visibleTags(activeTag), t)
    /\ visibleTagsState' = [visibleTagsState EXCEPT ![t] = ~@]
    /\ Rebuild(heap, draggingNode, activeTag, visibleTagsState', width, height, u)
    /\ Forget
    /\ UNCHANGED <<activeTag, isModalOpen, width, height, transform, lastTransform,
                   lastDistance, touches, gestures>>
    /\ UNCHANGED <<storeVars, hook>>

(* closeModal, part_002 133-137. *)
CloseModal(u) ==
    /\ isModalOpen
    /\ isModalOpen' = FALSE
    /\ Rebuild(heap, draggingNode, activeTag, visibleTagsState, width, height, u)
    /\ Forget
    /\ UNCHANGED <<activeTag, visibleTagsState, width, height, transform,
                   lastTransform, lastDistance, touches, gestures>>
    /\ UNCHANGED <<storeVars, hook>>

(* The window changes size (rotation, split screen): useWindowDimensions   *)
(* (part_002 line 31) renders App again with the new width and height.     *)
Resize(v, u) ==
    /\ <<width, height>> # v
    /\ width' = v[1] /\ height' = v[2]
    /\ Rebuild(heap, draggingNode, activeTag, visibleTagsState, v[1], v[2], u)
    /\ Forget
    /\ UNCHANGED <<activeTag, visibleTagsState, isModalOpen, transform,
                   lastTransform, lastDistance, touches, gestures>>
    /\ UNCHANGED <<storeVars, hook>>

----------------------------------------------------------------------------
(* Environments.  A finger lands on a drawn node or on one of the          *)
(* background points; each specification below lets the environment do a   *)
(* part of what it can do, so that each can be explored exhaustively.      *)

DownPoints == BackgroundPoints \cup DrawnPoints
FocusChoices == {NULL, "A", "UNASSIGNED"}
ToggleChoices == {"B"}

OneFingerGesture ==
    \/ \E p \in DownPoints : Grant(p, 1, 0)
    \/ \E e \in Displacements : Move(e)
    \/ \E u \in RandomDraws : Release(u)

Simulation ==
    \/ \E settle \in BOOLEAN, stop \in BOOLEAN : Tick(settle, stop)
    \/ \E u \in RandomDraws : CloseModal(u)

(* One-finger gestures, cancellation, ticks. *)
NextDrag ==
    \/ OneFingerGesture
    \/ Terminate
    \/ Simulation

SpecDrag == Init /\ [][NextDrag]_vars

(* The same without cancellation: pointer-down, move, up, ticks, rebuilds. *)
NextNoCancel ==
    \/ OneFingerGesture
    \/ Simulation

SpecNoCancel == Init /\ [][NextNoCancel]_vars

(* d3's timer keeps firing while the simulation runs, and with alphaTarget *)
(* 0 alpha decays below alphaMin: the tick that stops the timer comes.     *)
FairNoCancel ==
    SpecNoCancel /\ WF_vars(\E settle \in BOOLEAN : Tick(settle, TRUE))

(* One- and two-finger gestures that begin on the background. *)
NextPinch ==
    \/ \E p \in PinchPoints : Grant(p, 1, 0)
    \/ \E p \in PinchPoints, d \in PinchDistances : Grant(p, 2, d)
    \/ \E d \in PinchDistances : TouchStart(d)
    \/ \E i \in 1..2 : TouchEnd(i)
    \/ \E e \in Displacements : Move(e)
    \/ \E d \in PinchDistances : Pinch(d)
    \/ \E u \in RandomDraws : Release(u)
    \/ Terminate
    \/ \E stop \in BOOLEAN : Tick(TRUE, stop)
    \/ \E u \in RandomDraws : CloseModal(u)

SpecPinch == Init /\ [][NextPinch]_vars

(* The legend (focus and visibility) with taps and long drags of nodes. *)
NextLegend ==
    \/ \E p \in DrawnPoints : Grant(p, 1, 0)
    \/ \E e \in LongDisplacements : Move(e)
    \/ \E u \in RandomDraws : Release(u)
    \/ Terminate
    \/ \E stop \in BOOLEAN : Tick(TRUE, stop)
    \/ \E u \in RandomDraws : CloseModal(u)
    \/ \E t \in FocusChoices, u \in RandomDraws : TagClick(t, u)
    \/ \E t \in ToggleChoices, u \in RandomDraws : ToggleTagVisibility(t, u)

SpecLegend == Init /\ [][NextLegend]_vars

(* Changes of the window size, with taps and drags. *)
Viewports == {Viewport, <<300, 800>>, <<800, 800>>}

NextResize ==
    \/ \E p \in DownPoints : Grant(p, 1, 0)
    \/ \E e \in LongDisplacements : Move(e)
    \/ \E u \in RandomDraws : Release(u)
    \/ \E stop \in BOOLEAN : Tick(TRUE, stop)
    \/ \E u \in RandomDraws : CloseModal(u)
    \/ \E v \in Viewports, u \in RandomDraws : Resize(v, u)

SpecResize == Init /\ [][NextResize]_vars

----------------------------------------------------------------------------
(* The App's handlers on the store (part_002).  A handler that changes the *)
(* App's state renders App and GraphView again, and the simulation effect  *)
(* builds a new simulation.                                                *)

Rerender(at, u) ==
    /\ Rebuild(heap, draggingNode, at, visibleTagsState, width, height, u)
    /\ Forget
    /\ UNCHANGED <<visibleTagsState, width, height, transform, lastTransform,
                   lastDistance, touches, gestures>>

(* The menu button, lines 568-570; the sidebar's overlay covers it and the *)
(* node modal covers the screen.                                           *)
OpenSidebar(u) ==
    /\ ~isSidebarOpen /\ ~isModalOpen
    /\ isSidebarOpen' = TRUE
    /\ Rerender(activeTag, u)
    /\ UNCHANGED <<activeTag, isModalOpen, nodesState, tagsState, vaults,
                   currentVaultId, nextId, backResult, hook>>

(* The add button, openAddNodeModal, lines 129-132. *)
openAddNodeModal(u) ==
    /\ ~isSidebarOpen /\ ~isModalOpen
    /\ isModalOpen' = TRUE
    /\ Rerender(activeTag, u)
    /\ UNCHANGED <<activeTag, isSidebarOpen, nodesState, tagsState, vaults,
                   currentVaultId, nextId, backResult, hook>>

(* A node of the sidebar's list pressed, lines 626-629: handleNodeClick    *)
(* and the sidebar closes.                                                 *)
SidebarNodeClick(u) ==
    /\ isSidebarOpen
    /\ currentVaultNodes # <<>>
    /\ isModalOpen' = TRUE
    /\ isSidebarOpen' = FALSE
    /\ Rerender(activeTag, u)
    /\ UNCHANGED <<activeTag, nodesState, tagsState, vaults, currentVaultId,
                   nextId, backResult, hook>>

(* The sidebar's "unassigned" row, part_006 lines 397-401: handleTagClick  *)
(* (118-121) and the sidebar closes.                                       *)
SidebarTagClick(t, u) ==
    /\ isSidebarOpen
    /\ activeTag' = t
    /\ isModalOpen' = FALSE
    /\ isSidebarOpen' = FALSE
    /\ Rerender(t, u)
    /\ UNCHANGED <<nodesState, tagsState, vaults, currentVaultId, nextId, backResult, hook>>

(* The sidebar's overlay pressed: onClose, line 623. *)
CloseSidebar(u) ==
    /\ isSidebarOpen
    /\ isSidebarOpen' = FALSE
    /\ Rerender(activeTag, u)
    /\ UNCHANGED <<activeTag, isModalOpen, nodesState, tagsState, vaults,
                   currentVaultId, nextId, backResult, hook>>

(* Mutation of Back: the focus is left before the sidebar is closed. *)
BackTagFirst(u) ==
    /\ IF isModalOpen
       THEN /\ isModalOpen' = FALSE
            /\ UNCHANGED <<isSidebarOpen, activeTag>>
            /\ backResult' = "true"
            /\ Rerender(activeTag, u)
       ELSE IF activeTag # NULL
       THEN /\ activeTag' = NULL
            /\ UNCHANGED <<isModalOpen, isSidebarOpen>>
            /\ backResult' = "true"
            /\ Rerender(NULL, u)
       ELSE IF isSidebarOpen
       THEN /\ isSidebarOpen' = FALSE
            /\ UNCHANGED <<isModalOpen, activeTag>>
            /\ backResult' = "true"
            /\ Rerender(activeTag, u)
       ELSE /\ backResult' = "false"
            /\ UNCHANGED <<isModalOpen, isSidebarOpen, activeTag, graphVars>>
    /\ UNCHANGED <<nodesState, tagsState, vaults, currentVaultId, nextId, hook>>

(* The hardwareBackPress listener, lines 87-110. *)
Back(u) ==
    /\ IF isModalOpen
       THEN \* closeModal, lines 90-93
            /\ isModalOpen' = FALSE
            /\ UNCHANGED <<isSidebarOpen, activeTag>>
            /\ backResult' = "true"
            /\ Rerender(activeTag, u)
       ELSE IF isSidebarOpen
       THEN \* lines 95-98
            /\ isSidebarOpen' = FALSE
            /\ UNCHANGED <<isModalOpen, activeTag>>
            /\ backResult' = "true"
            /\ Rerender(activeTag, u)
       ELSE IF activeTag # NULL
       THEN \* lines 100-103
            /\ activeTag' = NULL
            /\ UNCHANGED <<isModalOpen, isSidebarOpen>>
            /\ backResult' = "true"
            /\ Rerender(NULL, u)
       ELSE \* line 106: the default behaviour is left to the system
            /\ backResult' = "false"
            /\ UNCHANGED <<isModalOpen, isSidebarOpen, activeTag, graphVars>>
    /\ UNCHANGED <<nodesState, tagsState, vaults, currentVaultId, nextId, hook>>

(* handleSaveNode(nodeData, id), lines 173-219.  The modal passes the id   *)
(* of the node it was opened on (NodeModal line 155), a node of the        *)
(* current vault, or none; updateTags runs from the timer of line 214.     *)
handleSaveNode(form, id, u) ==
    /\ isModalOpen
    /\ id = NULL => (nextId <= MaxUuids /\ Len(nodesState) < MaxNodes)
    /\ LET linkedNodeIds == LinkTargets(nodesState, form.refs, id)
           updatedNodes ==
               IF id # NULL
               THEN SeqMap(nodesState,
                           LAMBDA n : IF n.id = id
                                      THEN [n EXCEPT !.title = form.title,
                                                     !.tags = form.tags,
                                                     !.links = linkedNodeIds]
                                      ELSE n)
               ELSE Append(nodesState,
                           [id |-> Uuids[nextId + 1], title |-> form.title,
                            tags |-> form.tags, links |-> linkedNodeIds,
                            vaultId |-> currentVaultId])
       IN  /\ nodesState' = updatedNodes
           /\ tagsState' = updateTags(updatedNodes, tagsState)
    /\ nextId' = IF id = NULL THEN nextId + 1 ELSE nextId
    /\ isModalOpen' = FALSE
    /\ Rerender(activeTag, u)
    /\ UNCHANGED <<activeTag, isSidebarOpen, vaults, currentVaultId, backResult, hook>>

(* handleDeleteNode(id), lines 221-240, confirmed in the alert. *)
handleDeleteNode(id, u) ==
    /\ isModalOpen
    /\ LET newNodes == SelectSeq(nodesState, LAMBDA n : n.id # id)
           finalNodes == SeqMap(newNodes,
                                LAMBDA n : [n EXCEPT !.links = @ \ {id}])
       IN  /\ nodesState' = finalNodes
           /\ tagsState' = updateTags(finalNodes, tagsState)
    /\ isModalOpen' = FALSE
    /\ Rerender(activeTag, u)
    /\ UNCHANGED <<activeTag, isSidebarOpen, vaults, currentVaultId, nextId, backResult, hook>>

(* handleReset, lines 242-258, confirmed in the alert. *)
handleReset(u) ==
    /\ isSidebarOpen
    /\ nodesState' = SelectSeq(nodesState, LAMBDA n : n.vaultId # currentVaultId)
    /\ tagsState' = SelectSeq(tagsState, LAMBDA t : t.vaultId # currentVaultId)
    /\ isSidebarOpen' = FALSE
    /\ Rerender(activeTag, u)
    /\ UNCHANGED <<activeTag, isModalOpen, vaults, currentVaultId, nextId, backResult, hook>>

(* handleDeleteTag(tagName), lines 262-303, confirmed in the alert. *)
handleDeleteTag(tagName, u) ==
    /\ isSidebarOpen
    /\ LET newTagsList ==
               SelectSeq(tagsState,
                         LAMBDA t : ~(t.name = tagName /\ t.vaultId = currentVaultId))
           updatedNodes ==
               SeqMap(nodesState,
                      LAMBDA n : [n EXCEPT !.tags =
                                     SelectSeq(@, LAMBDA t : t # tagName)])
           at == IF activeTag = tagName THEN NULL ELSE activeTag
       IN  /\ nodesState' = updatedNodes
           /\ tagsState' = updateTags(updatedNodes, newTagsList)
           /\ activeTag' = at
           /\ Rerender(at, u)
    /\ UNCHANGED <<isModalOpen, isSidebarOpen, vaults, currentVaultId, nextId, backResult, hook>>

(* handleEditTag(oldTagName, newTagName, newColor), lines 305-335. *)
handleEditTag(oldTagName, newTagName, u) ==
    /\ isSidebarOpen
    /\ LET newTagsList ==
               SeqMap(tagsState,
                      LAMBDA t : IF t.name = oldTagName /\ t.vaultId = currentVaultId
                                 THEN [t EXCEPT !.name = newTagName] ELSE t)
           updatedNodes ==
               SeqMap(nodesState,
                      LAMBDA n : [n EXCEPT !.tags =
                                     SeqMap(@, LAMBDA t : IF t = oldTagName
                                                          THEN newTagName ELSE t)])
           at == IF activeTag = oldTagName THEN newTagName ELSE activeTag
       IN  /\ nodesState' = updatedNodes
           /\ tagsState' = updateTags(updatedNodes, newTagsList)
           /\ activeTag' = at
           /\ Rerender(at, u)
    /\ UNCHANGED <<isModalOpen, isSidebarOpen, vaults, currentVaultId, nextId, backResult, hook>>

(* handleCreateVault, lines 392-401. *)
handleCreateVault(u) ==
    /\ isSidebarOpen
    /\ nextId <= MaxUuids /\ Len(vaults) < MaxVaults
    /\ vaults' = Append(vaults, Uuids[nextId + 1])
    /\ currentVaultId' = Uuids[nextId + 1]
    /\ nextId' = nextId + 1
    /\ Rerender(activeTag, u)
    /\ UNCHANGED <<activeTag, isModalOpen, isSidebarOpen, nodesState, tagsState,
                   backResult, hook>>

(* handleDeleteVault(vaultId), lines 413-434; the vault switcher offers it *)
(* while there is more than one vault (VaultSwitcher lines 204-211), so    *)
(* a vault remains.                                                        *)
handleDeleteVault(vaultId, u) ==
    /\ isSidebarOpen
    /\ Len(vaults) > 1
    /\ LET remainingVaults == SelectSeq(vaults, LAMBDA v : v # vaultId) IN
       /\ nodesState' = SelectSeq(nodesState, LAMBDA n : n.vaultId # vaultId)
       /\ tagsState' = SelectSeq(tagsState, LAMBDA t : t.vaultId # vaultId)
       /\ vaults' = remainingVaults
       /\ currentVaultId' = remainingVaults[1]
    /\ Rerender(activeTag, u)
    /\ UNCHANGED <<activeTag, isModalOpen, isSidebarOpen, nextId,
                   backResult, hook>>

(* handleSwitchVault(vaultId), lines 436-439. *)
handleSwitchVault(vaultId, u) ==
    /\ isSidebarOpen
    /\ currentVaultId' = vaultId
    /\ activeTag' = NULL
    /\ Rerender(NULL, u)
    /\ UNCHANGED <<isModalOpen, isSidebarOpen, nodesState, tagsState, vaults,
                   nextId, backResult, hook>>

(* handleExport, lines 441-478: the file holds the nodes and the tags of   *)
(* the current vault.                                                      *)
handleExport == [nodes |-> currentVaultNodes, tags |-> currentVaultTags]

(* handleImport, lines 480-555, of a file handleExport wrote. *)
handleImport(importData, u) ==
    /\ isSidebarOpen
    /\ nextId <= MaxUuids /\ Len(vaults) < MaxVaults
    /\ Len(nodesState) + Len(importData.nodes) <= MaxNodes
    /\ LET newVaultId == Uuids[nextId + 1]
           importedNodes == SeqMap(importData.nodes,
                                   LAMBDA n : [n EXCEPT !.vaultId = newVaultId])
           importedTags == SeqMap(importData.tags,
                                  LAMBDA t : [t EXCEPT !.vaultId = newVaultId])
       IN  /\ vaults' = Append(vaults, newVaultId)
           /\ nodesState' = nodesState \o importedNodes
           /\ tagsState' = tagsState \o importedTags
           /\ currentVaultId' = newVaultId
    /\ nextId' = nextId + 1
    /\ Rerender(activeTag, u)
    /\ UNCHANGED <<activeTag, isModalOpen, isSidebarOpen, backResult, hook>>

(* The tags the sidebar lists: those of the tags prop that a node of the   *)
(* nodes prop carries (part_006 lines 202-219 and 314-316).                *)
SidebarTags ==
    {t \in TagNamesOf(currentVaultTags) :
        \E i \in 1..Len(currentVaultNodes) : Includes(currentVaultNodes[i].tags, t)}

(* The App's store: nodes and vaults, the sidebar and the modal. *)
NextStore ==
    \E u \in RandomDraws :
        \/ OpenSidebar(u)
        \/ CloseSidebar(u)
        \/ openAddNodeModal(u)
        \/ CloseModal(u)
        \/ SidebarNodeClick(u)
        \/ \E form \in NodeForms, id \in Ids(currentVaultNodes) \cup {NULL} :
              handleSaveNode(form, id, u)
        \/ \E id \in Ids(currentVaultNodes) : handleDeleteNode(id, u)
        \/ handleReset(u)
        \/ handleCreateVault(u)
        \/ \E v \in Elems(vaults) : handleDeleteVault(v, u)
        \/ \E v \in Elems(vaults) : handleSwitchVault(v, u)
        \/ handleImport(handleExport, u)

SpecStore == Init /\ [][NextStore]_vars

(* Tags and focus: nodes are added, tags deleted and renamed, vaults       *)
(* created, deleted, switched, reset and imported.  A tag is focused from  *)
(* the graph while the sidebar is closed and no tag is focused (Release),  *)
(* and focus is left by the button of line 580.                            *)
NextTags ==
    \E u \in RandomDraws :
        \/ OpenSidebar(u)
        \/ CloseSidebar(u)
        \/ openAddNodeModal(u)
        \/ CloseModal(u)
        \/ \E t \in TagNamesOf(currentVaultTags) \cup {NULL} :
              /\ ~isSidebarOpen
              /\ (t = NULL \/ ~isZoomed(activeTag))
              /\ TagClick(t, u)
        \/ \E form \in NodeForms : handleSaveNode(form, NULL, u)
        \/ handleReset(u)
        \/ \E t \in SidebarTags : handleDeleteTag(t, u)
        \/ \E t \in SidebarTags, n \in TagNames \ TagNamesOf(currentVaultTags) :
              handleEditTag(t, n, u)
        \/ handleCreateVault(u)
        \/ \E v \in Elems(vaults) : handleDeleteVault(v, u)
        \/ \E v \in Elems(vaults) : handleSwitchVault(v, u)
        \/ handleImport(handleExport, u)

SpecTags == Init /\ [][NextTags]_vars

(* The layers the back button closes: the modal, the sidebar, the focus.   *)
NextBack ==
    \E u \in RandomDraws :
        \/ OpenSidebar(u)
        \/ openAddNodeModal(u)
        \/ SidebarNodeClick(u)
        \/ SidebarTagClick("UNASSIGNED", u)
        \/ \E t \in TagNamesOf(currentVaultTags) \cup {NULL} :
              /\ ~isSidebarOpen
              /\ (t = NULL \/ ~isZoomed(activeTag))
              /\ TagClick(t, u)
        \/ \E form \in NodeForms, id \in Ids(currentVaultNodes) \cup {NULL} :
              handleSaveNode(form, id, u)
        \/ Back(u)

SpecBack == Init /\ [][NextBack]_vars

(* The storage hook alone: updates and renders. *)
NextHook ==
    \/ \E f \in Updaters : SetValue(f)
    \/ Render

SpecHook == InitHooks /\ [][NextHook]_vars

(* The legend with every eye, and taps on the background. *)
LegendRows == {"A", "B", "UNASSIGNED"}

NextFilter ==
    \/ \E p \in BackgroundPoints : Grant(p, 1, 0)
    \/ \E u \in RandomDraws : Release(u)
    \/ \E stop \in BOOLEAN : Tick(TRUE, stop)
    \/ \E t \in FocusChoices, u \in RandomDraws : TagClick(t, u)
    \/ \E t \in LegendRows, u \in RandomDraws : ToggleTagVisibility(t, u)

SpecFilter == Init /\ [][NextFilter]_vars

----------------------------------------------------------------------------
(* Properties.                                                             *)

(* The node objects, of any live generation, that have a fixed position. *)
Pinned ==
    UNION {{<<g, heap[g][i].id>> : i \in {j \in 1..Len(heap[g]) : heap[g][j].fx # None}}
           : g \in Gens}

ShortPath == RLt(hist.path, R(TapThreshold))
NodeIds == {StoreNodes[i] : i \in 1..Len(StoreNodes)}
PrimaryTag(n) == IF isUnassigned(n) THEN NULL ELSE NodeTags[n][1]
HiddenTags == {StoreTags[i] : i \in {j \in 1..Len(StoreTags) : visibleTagsState[StoreTags[j]] = FALSE}}
SnapshotPoints == {ScreenPoint(simNodesRef[i]) : i \in 1..Len(simNodesRef)}

(* C1: in a one-finger gesture that hits no node and whose total movement  *)
(* stays below the 5 px threshold, the view transform never changes, and   *)
(* on pointer-up exactly one callback, onBackgroundClick, is emitted.      *)
C1_SubThresholdTapLeavesView ==
    (~hist.grabbed /\ ~hist.second /\ ShortPath) =>
        /\ ~hist.panned
        /\ hist.ended = "release" => emitted = << <<"onBackgroundClick">> >>

(* C2: on pointer-up of a gesture that grabbed a node, onNodeClick(node)   *)
(* is emitted exactly when the cumulative movement since pointer-down,     *)
(* the length of the path travelled, was below the 5 px threshold.         *)
C2_NodeClickIffShortPath ==
    (hist.grabbed /\ hist.ended = "release") =>
        ((\E n \in NodeIds : emitted = << <<"onNodeClick", n>> >>) <=> ShortPath)

(* C3: after the platform has cancelled a gesture no node has a fixed      *)
(* position, no node is referenced as the dragged node and the energy      *)
(* target of the simulation is zero.                                       *)
C3_CancelReleasesDragLock ==
    hist.ended = "cancel" =>
        /\ Pinned = {}
        /\ draggingNode = None
        /\ alphaTarget = R(0)

(* C4: at most one node object has a fixed position, and a node has one    *)
(* only while it is the dragged node of the gesture in progress.           *)
C4_OnlyTheDraggedNodeIsPinned ==
    /\ Cardinality(Pinned) <= 1
    /\ \A o \in Pinned : draggingNode = o /\ touches # <<>>

(* C4 witness: a node is being dragged away from where it was grabbed and  *)
(* is the pinned one, in a second gesture.                                 *)
C4_Witness ==
    /\ gestures = 2
    /\ hist.grabbed /\ ~ShortPath
    /\ draggingNode \in Pinned
    /\ touches # <<>>

(* C5: a gesture that grabbed a node never changes the view transform, and *)
(* a gesture that grabbed no node never writes a fixed position.           *)
C5_DragAndPanExclusive ==
    /\ hist.grabbed => ~hist.panned
    /\ ~hist.grabbed => ~hist.fixed

(* C6: hit-testing the screen point where a node is drawn returns that     *)
(* node, for every node the renderer draws, in every mode and under every  *)
(* view transform.                                                         *)
C6_HitTestInvertsRender ==
    \A i \in 1..Len(simNodesRef) :
        IsDrawn(simNodesRef[i].id, activeTag) =>
            findNodeAt(ScreenPoint(simNodesRef[i])[1], ScreenPoint(simNodesRef[i])[2])
                = <<shownGen, simNodesRef[i].id>>

(* C7: the scale of the view transform is always within [0.5, 3]. *)
C7_ScaleWithinLimits ==
    /\ RLe(MinScale, transform.k)
    /\ RLe(transform.k, MaxScale)

(* C7 witness: two fingers spread to twice their reference distance from   *)
(* baseline scale 2, and the scale stands at the maximum.                  *)
C7_Witness ==
    /\ Len(touches) = 2
    /\ lastTransform.k = R(2)
    /\ lastDistance = R(10)
    /\ getDistance(touches[1], touches[2]) = R(20)
    /\ transform.k = MaxScale

(* C8: a move with two fingers down and a reference distance d0 > 0 sets   *)
(* the scale to min(3, max(0.5, baseline * d / d0)) and leaves the offset  *)
(* unchanged.                                                              *)
C8_PinchSetsScale ==
    [][(/\ Len(touches) = 2 /\ Len(touches') = 2 /\ touches' # touches
        /\ lastDistance # None /\ RLt(R(0), lastDistance))
       => transform' =
            [transform EXCEPT
               !.k = RMin(MaxScale,
                          RMax(MinScale,
                               RMul(lastTransform.k,
                                    RDiv(getDistance(touches'[1], touches'[2]),
                                         lastDistance))))]]_vars

(* C9: a hidden tag has no angular band and is never returned by sector    *)
(* hit-testing; no node whose primary tag is hidden is in the active node  *)
(* set of the simulation or is returned by node hit-testing.               *)
C9_HiddenTagExcluded ==
    \A t \in HiddenTags :
        /\ angularScale(t, angularDomain(activeTag, visibleTagsState)) = None
        /\ \A p \in BackgroundPoints : findTagAt(p[1], p[2]) # t
        /\ \A i \in 1..Len(heap[simGen]) : PrimaryTag(heap[simGen][i].id) # t
        /\ \A p \in BackgroundPoints \cup SnapshotPoints :
              findNodeAt(p[1], p[2]) = None
                 \/ PrimaryTag(findNodeAt(p[1], p[2])[2]) # t

(* C10: a pointer-up emits at most one callback; a tap (one finger, below  *)
(* the threshold, no node hit) emits onTagClick(tag) when it hits the      *)
(* band of a tag outside a tag focus and onBackgroundClick otherwise; a    *)
(* gesture in which a second touch was registered emits no callback.       *)
C10_TapEmitsOneCallback ==
    [][(hist.ended = "" /\ hist'.ended = "release") =>
        /\ Len(emitted') <= 1
        /\ hist.second => emitted' = <<>>
        /\ (~hist.second /\ ~hist.grabbed /\ ShortPath) =>
              emitted' =
                 IF ~isZoomed(activeTag) /\ findTagAt(touches[1][1], touches[1][2]) # NULL
                 THEN << <<"onTagClick", findTagAt(touches[1][1], touches[1][2])>> >>
                 ELSE << <<"onBackgroundClick">> >>]_vars

(* The ids of the current active node set and of the simulation's nodes. *)
ActiveIds == Elems(activeNodes(visibleNodes(activeTag, visibleTagsState), visibleTagsState))

(* C11: every edge handed to the simulation and every edge rendered joins  *)
(* two nodes of the current active node set; a link to an id outside it    *)
(* gives no edge, and neither removes its source node from the simulation  *)
(* nor the source's links to active nodes.                                 *)
C11_EdgesJoinActiveNodes ==
    /\ Ids(heap[simGen]) = ActiveIds
    /\ links(activeNodes(visibleNodes(activeTag, visibleTagsState), visibleTagsState))
          = {e \in ActiveIds \X ActiveIds : Includes(NodeLinks[e[1]], e[2])}
    /\ renderedLinks(visibleNodes(activeTag, visibleTagsState), simNodesRef, activeTag)
          \subseteq ActiveIds \X ActiveIds

(* Squared distance of a node object from the centre of the wheel. *)
Dist2(o) == RAdd(RSq(o.x), RSq(o.y))
OnOuterRing(o) ==
    /\ RLe(RSq(RSub(unassignedRadius(width, height), R(15))), Dist2(o))
    /\ RLe(Dist2(o), RSq(RAdd(unassignedRadius(width, height), R(15))))

(* C12: while the visible tag list is empty, every node a layout is seeded *)
(* with, tagged or not, is placed on the unassigned outer ring and has no  *)
(* target position, the nodes of the current simulation have no target     *)
(* position, and sector hit-testing matches no tag at any point.           *)
C12_NoBandsAllOnOuterRing ==
    angularDomain(activeTag, visibleTagsState) = <<>> =>
        /\ \A u \in RandomDraws :
             LET seeded == initialNodes(activeTag, visibleTagsState, width, height,
                                        showDifficulty, u)
             IN  \A i \in 1..Len(seeded) :
                    seeded[i].targetX = None /\ OnOuterRing(seeded[i])
        /\ \A i \in 1..Len(heap[simGen]) : heap[simGen][i].targetX = None
        /\ \A p \in BackgroundPoints : findTagAt(p[1], p[2]) = NULL

(* C13: after every simulation tick each node object that has a fixed      *)
(* position is at that position, whatever moves and ticks came before.     *)
C13_TickKeepsFixedNodeInPlace ==
    [][(\E settle \in BOOLEAN, stop \in BOOLEAN : Tick(settle, stop)) =>
          \A o \in Pinned' :
              /\ Deref(heap', o).x = Deref(heap', o).fx
              /\ Deref(heap', o).y = Deref(heap', o).fy]_vars

(* C14: from the pointer-down that grabs a node until the gesture ends the *)
(* energy target is 0.3 and the simulation keeps ticking; once a gesture   *)
(* has ended the energy target is 0 and no node has a fixed position.      *)
C14_EnergyFollowsDrag ==
    /\ (hist.grabbed /\ touches # <<>>) => (alphaTarget = HotAlphaTarget /\ running)
    /\ hist.ended # "" => (alphaTarget = R(0) /\ Pinned = {})

(* The liveness half of C14 where no gesture is cancelled (FairNoCancel):  *)
(* while no finger is down the simulation goes idle unless a new gesture   *)
(* begins.                                                                 *)
EventuallyIdle == (touches = <<>>) ~> (~running \/ touches # <<>>)

(* The generations alive before and after a step are the same ones, so     *)
(* heap[g] and heap'[g] are the same objects.                              *)
SameObjects ==
    /\ simGen' = simGen
    /\ LiveGens(simGen', shownGen', draggingNode')
          = LiveGens(simGen, shownGen, draggingNode)

(* C15: the node objects of a published snapshot are never changed         *)
(* afterwards, neither their positions nor their fixed positions, by a     *)
(* tick or by a gesture handler.                                           *)
C15_SnapshotImmutable ==
    [][(shownGen # NoGen /\ SameObjects) => heap'[shownGen] = heap[shownGen]]_vars

(* A touch has moved: the same fingers are down, one of them elsewhere. *)
TouchMoved == touches # <<>> /\ Len(touches') = Len(touches) /\ touches' # touches

(* C16: the view transform changes only in the handling of a pointer-move  *)
(* while no node is being dragged: a one-finger pan changes the offset     *)
(* only, a two-finger move the scale only; ticks, rebuilds of the layout,  *)
(* pointer-down and pointer-up leave offset and scale as they are.         *)
C16_OnlyMovesChangeTransform ==
    [][transform' # transform =>
          /\ TouchMoved
          /\ draggingNode = None
          /\ Len(touches) = 1 => transform'.k = transform.k
          /\ Len(touches) = 2 =>
                (transform'.x = transform.x /\ transform'.y = transform.y)]_vars

(* C16 witness: the view was panned and zoomed, the gesture is over, a tap *)
(* has focused a tag (rebuilding the layout) and the new simulation has    *)
(* ticked and stopped: the transform is still the panned and zoomed one.   *)
C16_Witness ==
    /\ transform.x # R(0)
    /\ transform.k # R(1)
    /\ touches = <<>>
    /\ gestures = 2
    /\ activeTag # NULL
    /\ shownGen = simGen
    /\ ~running

(* C17: while one finger is down, no node is held by the drag ref and no   *)
(* pinch distance is recorded, every move of the finger moves the offset   *)
(* by exactly the finger's screen movement, whatever the scale, and leaves *)
(* the scale as it is; so the offset is the one at pointer-down plus the   *)
(* displacement since then, and a later gesture continues from the offset  *)
(* the earlier one reached.                                                *)
C17_PanFollowsFinger ==
    [][(/\ Len(touches) = 1 /\ Len(touches') = 1 /\ touches' # touches
        /\ draggingNode = None /\ lastDistance = None)
       => transform' =
            [x |-> RAdd(transform.x, RSub(touches'[1][1], touches[1][1])),
             y |-> RAdd(transform.y, RSub(touches'[1][2], touches[1][2])),
             k |-> transform.k]]_vars

(* C17 witness: a second gesture pans by 2 px at a scale other than 1,     *)
(* from the offset of 50 px the first gesture reached.                     *)
C17_Witness ==
    /\ gestures = 2
    /\ Len(touches) = 1
    /\ ~hist.grabbed /\ ~hist.second
    /\ draggingNode = None /\ lastDistance = None
    /\ transform.k # R(1)
    /\ transform.x = R(52)
    /\ touches[1] = Shift(hist.down, <<R(2), R(0)>>)

(* C18: a two-finger move while no node is dragged and no pinch distance   *)
(* is recorded (a second finger has joined a pan) changes no transform and *)
(* records the fingers' distance and the live transform as the baseline;   *)
(* every later two-finger move keeps that baseline and the offset and sets *)
(* the scale from the recorded scale and distance.                         *)
C18_PinchStartsWithoutJump ==
    [][(/\ Len(touches) = 2 /\ Len(touches') = 2 /\ touches' # touches
        /\ draggingNode = None)
       => IF lastDistance = None
          THEN /\ transform' = transform
               /\ lastDistance' = getDistance(touches'[1], touches'[2])
               /\ lastTransform' = transform
          ELSE /\ lastDistance' = lastDistance
               /\ lastTransform' = lastTransform
               /\ transform'.x = transform.x /\ transform'.y = transform.y
               /\ lastDistance # R(0) =>
                     transform'.k =
                        RMax(MinScale,
                             RMin(MaxScale,
                                  RMul(lastTransform.k,
                                       RDiv(getDistance(touches'[1], touches'[2]),
                                            lastDistance))))]_vars

(* C18 witness: after a pan of 50 px a second finger joined, the first     *)
(* two-finger move recorded a distance of 10 at the panned offset, and a   *)
(* spread to 20 has doubled the scale.                                     *)
C18_Witness ==
    /\ hist.panned /\ ~hist.grabbed
    /\ Len(touches) = 2
    /\ lastDistance = R(10)
    /\ lastTransform = [x |-> R(50), y |-> R(0), k |-> R(1)]
    /\ transform = [x |-> R(50), y |-> R(0), k |-> R(2)]

(* C19: every pointer-up leaves the transform baseline equal to the live   *)
(* transform and the pinch reference distance cleared.                     *)
C19_ReleaseResetsBaseline ==
    [][(hist.ended = "" /\ hist'.ended = "release") =>
          /\ lastTransform' = transform'
          /\ lastDistance' = None]_vars

(* C20: after one finger of a two-finger gesture has lifted, every move of *)
(* the remaining finger moves the offset by the finger's movement.         *)
C20_RemainingFingerPans ==
    [][(/\ Len(touches) = 1 /\ Len(touches') = 1 /\ touches' # touches
        /\ hist.second /\ ~hist.grabbed /\ draggingNode = None)
       => /\ transform'.x = RAdd(transform.x, RSub(touches'[1][1], touches[1][1]))
          /\ transform'.y = RAdd(transform.y, RSub(touches'[1][2], touches[1][2]))]_vars

(* Graph-space squared radius of a screen point under the live transform. *)
GraphR2(p) ==
    RAdd(RSq(graphCoord(p[1], centerX(width), transform.x, transform.k)),
         RSq(graphCoord(p[2], centerY(height), transform.y, transform.k)))

(* C21: sector hit-testing matches a tag exactly at the points whose       *)
(* graph-space radius is at most the sector outer radius of the current    *)
(* viewport, min(width, height)/2 - margin: with a visible tag every point *)
(* within that radius maps to a tag, and every point beyond it to none.    *)
C21_SectorTestUsesCurrentViewport ==
    \A p \in {q \in BackgroundPoints : InViewport(q)} :
        IF RLe(GraphR2(p), RSq(radius(width, height)))
        THEN angularDomain(activeTag, visibleTagsState) # <<>>
                => findTagAt(p[1], p[2]) # NULL
        ELSE findTagAt(p[1], p[2]) = NULL

(* C24: while a drag is in progress the dragged node object belongs to the *)
(* simulation that is currently running.                                   *)
C24_DraggedNodeIsOfCurrentSimulation ==
    (draggingNode # None /\ touches # <<>>) => draggingNode[1] = simGen

(* The screen point of a node's target position under the live transform. *)
TargetPoint(o) == ScreenPoint([x |-> o.targetX, y |-> o.targetY])

(* C22: with n >= 1 visible tags the i-th tag of the list (from 0) owns    *)
(* the band [i/n, (i+1)/n) of the full turn, and the sector hit-test of    *)
(* the target point of a node whose primary tag has a band returns that    *)
(* primary tag.                                                            *)
C22_BandsInListOrder ==
    LET dom == angularDomain(activeTag, visibleTagsState)
    IN  /\ \A i \in 1..Len(dom) :
              /\ angularScale(dom[i], dom) = Norm(4 * (i - 1), Len(dom))
              /\ angularBandwidth(dom) = Norm(4, Len(dom))
        /\ \A i \in 1..Len(heap[simGen]) :
              LET o == heap[simGen][i]
              IN  (o.targetX # None /\ Includes(dom, PrimaryTag(o.id))) =>
                     findTagAt(TargetPoint(o)[1], TargetPoint(o)[2]) = PrimaryTag(o.id)

(* Where the claim puts the target of a tagged node: at the midpoint of    *)
(* the band of primary tag t and of the radial band of its difficulty, or  *)
(* at 0.6 of the outer radius when difficulty is not shown.                *)
ClaimedTarget(n, dom, w, h, showDiff) ==
    LET t == PrimaryTag(n)
        k == IndexOf(dom, t) - 1
        angle == RAdd(Norm(4 * k, Len(dom)), Norm(2, Len(dom)))
        rad == radius(w, h)
        lvl == IndexOf(DIFFICULTY_LEVELS, NodeDifficulty[n]) - 1
        r == IF showDiff
             THEN RAdd(RMul(<<1, 5>>, rad),
                       RMul(Norm(2 * lvl + 1, 2), RDiv(RMul(<<4, 5>>, rad), R(3))))
             ELSE RMul(<<3, 5>>, rad)
    IN  <<RMul(r, CosQ(RSub(angle, R(1)))), RMul(r, SinQ(RSub(angle, R(1))))>>

(* C23: every seeded node with a primary tag has its target at the         *)
(* midpoint of its primary tag's angular band and of its difficulty's      *)
(* radial band (0.6 of the outer radius when difficulty is not shown);     *)
(* every node without tags has no target and is seeded on the outer ring.  *)
C23_SeedTargets ==
    \A sd \in BOOLEAN, u \in RandomDraws :
        LET dom == angularDomain(activeTag, visibleTagsState)
            seeded == IF sd = showDifficulty THEN heap[simGen]
                      ELSE initialNodes(activeTag, visibleTagsState, width, height, sd, u)
        IN  \A i \in 1..Len(seeded) :
               IF isUnassigned(seeded[i].id)
               THEN seeded[i].targetX = None /\ seeded[i].targetY = None
               ELSE /\ Includes(dom, PrimaryTag(seeded[i].id))
                    /\ <<seeded[i].targetX, seeded[i].targetY>>
                          = ClaimedTarget(seeded[i].id, dom, width, height, sd)

RECURSIVE Compose(_, _)
Compose(queue, v) ==
    IF queue = <<>> THEN v ELSE Compose(Tail(queue), Apply(Head(queue).fn, v))

(* C28: when the component renders after updater functions f, g, ... were  *)
(* given to setValue, in that order, the state is ...g(f(v)) of the state  *)
(* v before them.                                                          *)
C28_UpdatersCompose ==
    [][(hook.pending # <<>> /\ hook'.pending = <<>>) =>
          hook'.storedValue = Compose(hook.pending, hook.storedValue)]_vars

(* C25: a hardware back press closes the highest layer that is open, the   *)
(* node modal, else the sidebar, else the tag focus, leaves the layers     *)
(* below as they are and reports the press as handled; it reports the      *)
(* press as not handled exactly when no layer is open.                     *)
C25_BackPriority ==
    [][(\E u \in RandomDraws : Back(u)) =>
          /\ isModalOpen =>
                /\ ~isModalOpen'
                /\ isSidebarOpen' = isSidebarOpen /\ activeTag' = activeTag
                /\ backResult' = "true"
          /\ (~isModalOpen /\ isSidebarOpen) =>
                /\ ~isSidebarOpen'
                /\ isModalOpen' = isModalOpen /\ activeTag' = activeTag
                /\ backResult' = "true"
          /\ (~isModalOpen /\ ~isSidebarOpen /\ activeTag # NULL) =>
                /\ activeTag' = NULL
                /\ isModalOpen' = isModalOpen /\ isSidebarOpen' = isSidebarOpen
                /\ backResult' = "true"
          /\ (backResult' = "false") <=>
                (~isModalOpen /\ ~isSidebarOpen /\ activeTag = NULL)
          /\ (backResult' = "false") =>
                UNCHANGED <<isModalOpen, isSidebarOpen, activeTag>>
          /\ UNCHANGED <<nodesState, tagsState, vaults, currentVaultId>>]_vars

(* A press was handled and left a tag in focus: the layer closed was above *)
(* the focus.                                                              *)
C25_Witness ==
    backResult = "true" /\ ~isModalOpen /\ ~isSidebarOpen /\ activeTag # NULL

(* The nodes and the tags of the vaults other than the current one. *)
OtherVaultNodes(nl) == SelectSeq(nl, LAMBDA n : n.vaultId # currentVaultId)
OtherVaultTags(tl) == SelectSeq(tl, LAMBDA t : t.vaultId # currentVaultId)

(* C26: deleting or renaming a tag leaves the tags and the nodes of every  *)
(* vault other than the current one unchanged.                             *)
C26_TagChangeStaysInVault ==
    [][(\E u \in RandomDraws, t \in TagNames :
            \/ handleDeleteTag(t, u)
            \/ \E n \in TagNames : handleEditTag(t, n, u)) =>
          /\ OtherVaultNodes(nodesState') = OtherVaultNodes(nodesState)
          /\ OtherVaultTags(tagsState') = OtherVaultTags(tagsState)]_vars

(* C27: no two nodes of the store have the same id. *)
C27_NodeIdsUnique ==
    \A i, j \in 1..Len(nodesState) :
        i # j => nodesState[i].id # nodesState[j].id

(* C29: every id among a node's links is the id of a node of the same      *)
(* vault, and no node links to itself.                                     *)
C29_LinkIntegrity ==
    \A i \in 1..Len(nodesState) :
        \A l \in nodesState[i].links :
            /\ l # nodesState[i].id
            /\ \E j \in 1..Len(nodesState) :
                  /\ nodesState[j].id = l
                  /\ nodesState[j].vaultId = nodesState[i].vaultId

(* C30: when a tag name is focused, the current vault has a tag of that    *)
(* name.                                                                   *)
C30_FocusedTagExists ==
    isZoomed(activeTag) => activeTag \in TagNamesOf(currentVaultTags)

====
